---- MODULE Spec2Model ----
(***************************************************************************)
(* Model of the record reconciliation and merge pipeline of                *)
(* CompanyService (saveCompanies and the helpers it calls), of the POST     *)
(* handler that saves a scrape, and of PhaseBScraper.scrape with its       *)
(* batched profile fetches.                                                *)
(*                                                                         *)
(* Strings are sequences of one-character strings, so that trim,           *)
(* toLowerCase, split('|') and join('|') are computed as the code computes *)
(* them.  A nullable array (string[] | null) is a record                   *)
(* [isNull, items]; a nullable accreditation uses the marker "null".       *)
(***************************************************************************)
EXTENDS Integers, Sequences, FiniteSets, TLC

\* ---------------------------------------------------------------- bounds
MaxObservations == 4
MaxJudgeLen == 2
MaxGroup == 3
MaxConcurrentBatch == 1
MaxDigits == 12
MaxScraped == 2
MaxPages == 2
MaxCompanies == 8

\* ------------------------------------------------------------- strings
NA == <<"N", "/", "A">>

toLowerCaseChar(c) ==
  CASE c = "A" -> "a"
    [] c = "B" -> "b"
    [] c = "N" -> "n"
    [] OTHER -> c

toLowerCase(s) == [i \in 1..Len(s) |-> toLowerCaseChar(s[i])]

RECURSIVE trimStart(_)
trimStart(s) ==
  IF s # <<>> /\ s[1] = " " THEN trimStart(Tail(s)) ELSE s

RECURSIVE trimEnd(_)
trimEnd(s) ==
  IF s # <<>> /\ s[Len(s)] = " " THEN trimEnd(SubSeq(s, 1, Len(s) - 1)) ELSE s

trim(s) == trimEnd(trimStart(s))

\* company.name.toLowerCase().trim()
normalizedName(name) == trim(toLowerCase(name))

\* value.split('|')
RECURSIVE split(_)
split(s) ==
  IF \E i \in 1..Len(s) : s[i] = "|"
  THEN LET i == CHOOSE k \in 1..Len(s) :
                  s[k] = "|" /\ \A j \in 1..(k - 1) : s[j] # "|"
       IN <<SubSeq(s, 1, i - 1)>> \o split(SubSeq(s, i + 1, Len(s)))
  ELSE <<s>>

\* values.join('|')
RECURSIVE join(_)
join(arr) ==
  IF arr = <<>> THEN <<>>
  ELSE IF Len(arr) = 1 THEN arr[1]
  ELSE arr[1] \o <<"|">> \o join(Tail(arr))

\* The value of an expression written { body : v \in {e} }, which is the
\* body of `const v = e; body`: e is computed once and the body reads v.
The(S) == CHOOSE r \in S : TRUE

Contains(arr, v) == \E i \in 1..Len(arr) : arr[i] = v

\* [...new Set(values)] : first occurrences, insertion order
RECURSIVE uniqueValues(_)
uniqueValues(arr) ==
  IF arr = <<>> THEN <<>>
  ELSE LET init == SubSeq(arr, 1, Len(arr) - 1)
           last == arr[Len(arr)]
       IN IF Contains(init, last) THEN uniqueValues(init)
          ELSE uniqueValues(init) \o <<last>>

mapTrim(arr) == [i \in 1..Len(arr) |-> trim(arr[i])]

\* ------------------------------------------------------ nullable arrays
Null == [isNull |-> TRUE, items |-> <<>>]
Arr(s) == [isNull |-> FALSE, items |-> s]
Items(a) == IF a.isNull THEN <<>> ELSE a.items

\* cleanArrayValues(values)
cleanArrayValues(values) ==
  LET cleaned == mapTrim(SelectSeq(values,
                    LAMBDA v : v # <<>> /\ v # NA /\ trim(v) # <<>>))
      unique == uniqueValues(cleaned)
  IN IF Len(unique) > 0 THEN Arr(unique) ELSE Null

\* parseMultiValue(value)
parseMultiValue(value) ==
  IF value = <<>> \/ value = NA THEN <<>>
  ELSE SelectSeq(mapTrim(split(value)), LAMBDA v : v # <<>> /\ v # NA)

\* arraysEqual(a, b): null handling, then comparison of the sorted copies,
\* i.e. equality as multisets of the same length
CountOf(arr, v) == Cardinality({i \in 1..Len(arr) : arr[i] = v})

arraysEqual(a, b) ==
  IF a.isNull /\ b.isNull THEN TRUE
  ELSE IF a.isNull \/ b.isNull THEN FALSE
  ELSE IF Len(a.items) # Len(b.items) THEN FALSE
  ELSE \A i \in 1..Len(a.items) :
         CountOf(a.items, a.items[i]) = CountOf(b.items, a.items[i])

\* ---------------------------------------------------------------- state
VARIABLES
  store,              \* the companies table: sequence of Company rows
  apiKey,             \* process.env.OPENAI_API_KEY is set
  pc,                 \* position of the saveCompanies run in flight
  batch,              \* saveCompanies argument `companies`
  metadata,           \* saveCompanies argument `metadata`
  mergedCompanies,    \* result of step 1
  newCompanies,       \* step 3: candidates to insert
  companiesToUpdate,  \* step 3: pairs (existing row, candidate) left to update
  result,             \* the SaveResult being built
  clock,              \* number of runs started; the store's now()
  observed,           \* number of observations passed to saveCompanies so far
  rerun,              \* "no", or the run in flight repeats the batch of the
                      \* run before it, which had no ("clean") or some
                      \* ("dirty") store error
  storeAtStart,       \* the store when the run in flight started
  writeFailed,        \* a store call of the run in flight has returned an error
  lastMerge,          \* the last call of updateExistingCompanyWithArrays
  fnIn,               \* arguments of a function applied on its own
  fnOut,              \* its result
  other,              \* a second saveCompanies call in flight at the same time
  scraper             \* a call of PhaseBScraper.scrape

vars == <<store, apiKey, pc, batch, metadata, mergedCompanies, newCompanies,
          companiesToUpdate, result, clock, observed, rerun, storeAtStart,
          writeFailed, lastMerge, fnIn, fnOut, other, scraper>>

\* ------------------------------------------------------ Similarity Judge
\* What the oracle call of deduplicateWithAI can produce:
\*   "error"  fetch rejects, response is not JSON, choices is missing,
\*            or the content is JSON null: the catch block runs
\*   "all"    a JSON array holding every candidate
\*   "none"   the JSON array []
\*   "fresh"  a JSON array holding a string that is no candidate
\*   "object" well-formed JSON that is not iterable (an object, a number)
\*   "blank"  a JSON array holding the empty string
OracleResponses == {"error", "all", "none", "fresh", "object", "blank"}
FreshValue == <<"z">>

\* newValues.filter(newVal => !existingValues.includes(newVal))
simpleDeduplication(existingValues, newValues) ==
  SelectSeq(newValues, LAMBDA v : ~Contains(existingValues, v))

\* deduplicateWithAI(existingValues, newValues), the oracle answering `resp`.
\* iterable = FALSE: the value returned cannot be spread into an array.
deduplicateWithAI(existingValues, newValues, resp) ==
  IF ~apiKey
  THEN [iterable |-> TRUE, items |-> simpleDeduplication(existingValues, newValues)]
  ELSE CASE resp = "all" -> [iterable |-> TRUE, items |-> newValues]
         [] resp = "none" -> [iterable |-> TRUE, items |-> <<>>]
         [] resp = "fresh" -> [iterable |-> TRUE, items |-> <<FreshValue>>]
         [] resp = "blank" -> [iterable |-> TRUE, items |-> << <<>> >>]
         [] resp = "object" -> [iterable |-> FALSE, items |-> <<>>]
         [] OTHER -> [iterable |-> TRUE,
                      items |-> simpleDeduplication(existingValues, newValues)]

\* The new values are put in front of the existing ones.
mergeArrays_prepend(existing, newValues, resp) ==
  The({ IF Len(filteredNewValues) = 0
        THEN [threw |-> FALSE, asked |-> FALSE,
              val |-> IF Len(existingValues) > 0 THEN Arr(existingValues)
                      ELSE Null]
        ELSE IF Len(existingValues) = 0
        THEN [threw |-> FALSE, asked |-> FALSE, val |-> Arr(filteredNewValues)]
        ELSE The({ IF ~uniqueNewValues.iterable
                   THEN [threw |-> TRUE, asked |-> apiKey, val |-> Null]
                   ELSE The({ [threw |-> FALSE, asked |-> apiKey,
                               val |-> IF Len(combined) > 0 THEN Arr(combined)
                                       ELSE Null] :
                              combined \in
                                {uniqueNewValues.items \o existingValues} }) :
                   uniqueNewValues \in
                     {deduplicateWithAI(existingValues, filteredNewValues, resp)} }) :
        existingValues \in {Items(existing)},
        filteredNewValues \in
          {SelectSeq(newValues, LAMBDA v : v # <<>> /\ v # NA)} })

\* mergeArrays(existing, newValues).  threw: the call rejects;
\* asked: the oracle request was sent.
mergeArrays(existing, newValues, resp) ==
  The({ IF Len(filteredNewValues) = 0
        THEN [threw |-> FALSE, asked |-> FALSE,
              val |-> IF Len(existingValues) > 0 THEN Arr(existingValues)
                      ELSE Null]
        ELSE IF Len(existingValues) = 0
        THEN [threw |-> FALSE, asked |-> FALSE, val |-> Arr(filteredNewValues)]
        ELSE The({ IF ~uniqueNewValues.iterable
                   THEN [threw |-> TRUE, asked |-> apiKey, val |-> Null]
                   ELSE The({ [threw |-> FALSE, asked |-> apiKey,
                               val |-> IF Len(combined) > 0 THEN Arr(combined)
                                       ELSE Null] :
                              combined \in
                                {existingValues \o uniqueNewValues.items} }) :
                   uniqueNewValues \in
                     {deduplicateWithAI(existingValues, filteredNewValues, resp)} }) :
        existingValues \in {Items(existing)},
        filteredNewValues \in
          {SelectSeq(newValues, LAMBDA v : v # <<>> /\ v # NA)} })

\* mergeValuesWithAI(existing, newValue)
mergeValuesWithAI(existing, newValue, resp) ==
  IF existing = NA \/ existing = <<>>
  THEN [threw |-> FALSE, asked |-> FALSE, val |-> newValue]
  ELSE IF newValue = NA \/ newValue = <<>>
  THEN [threw |-> FALSE, asked |-> FALSE, val |-> existing]
  ELSE The({ [threw |-> r.threw, asked |-> r.asked,
               val |-> IF r.threw \/ r.val.isNull THEN existing
                       ELSE join(r.val.items)] :
             r \in {mergeArrays(Arr(parseMultiValue(existing)), <<newValue>>,
                                resp)} })

\* --------------------------------------------------- Intra-Batch Merger
\* The accreditation of the later observation wins whenever it is known.
mergeIntoExisting_lastKnown(existing, company, resp) ==
  The({
     [threw |-> p.threw \/ c.threw \/ u.threw \/ a.threw,
      asked |-> p.asked
                \/ (~p.threw /\ c.asked)
                \/ (~p.threw /\ ~c.threw /\ u.asked)
                \/ (~p.threw /\ ~c.threw /\ ~u.threw /\ a.asked),
      val |-> [name |-> existing.name,
               phone |-> p.val,
               principal_contact |-> c.val,
               url |-> u.val,
               address |-> a.val,
               accreditation |->
                 IF company.accreditation # "Unknown"
                 THEN company.accreditation
                 ELSE existing.accreditation]] :
     p \in {mergeValuesWithAI(existing.phone, company.phone, resp)},
     c \in {mergeValuesWithAI(existing.principal_contact,
                              company.principal_contact, resp)},
     u \in {mergeValuesWithAI(existing.url, company.url, resp)},
     a \in {mergeValuesWithAI(existing.address, company.address, resp)} })

\* Body of the `if (companyMap.has(key))` branch of mergeCompaniesByName:
\* the four awaited mergeValuesWithAI calls in order, then the accreditation.
mergeIntoExisting(existing, company, resp) ==
  The({
     [threw |-> p.threw \/ c.threw \/ u.threw \/ a.threw,
      asked |-> p.asked
                \/ (~p.threw /\ c.asked)
                \/ (~p.threw /\ ~c.threw /\ u.asked)
                \/ (~p.threw /\ ~c.threw /\ ~u.threw /\ a.asked),
      val |-> [name |-> existing.name,
               phone |-> p.val,
               principal_contact |-> c.val,
               url |-> u.val,
               address |-> a.val,
               accreditation |->
                 IF company.accreditation = "Accredited"
                    \/ existing.accreditation = "Unknown"
                 THEN company.accreditation
                 ELSE existing.accreditation]] :
     p \in {mergeValuesWithAI(existing.phone, company.phone, resp)},
     c \in {mergeValuesWithAI(existing.principal_contact,
                              company.principal_contact, resp)},
     u \in {mergeValuesWithAI(existing.url, company.url, resp)},
     a \in {mergeValuesWithAI(existing.address, company.address, resp)} })

\* The Map is searched for the name as written instead of the key.
KeyIndex_rawName(companyMap, key) ==
  IF \E i \in 1..Len(companyMap) : companyMap[i].name = key
  THEN CHOOSE i \in 1..Len(companyMap) : companyMap[i].name = key
  ELSE 0

KeyIndex(companyMap, key) ==
  IF \E i \in 1..Len(companyMap) : normalizedName(companyMap[i].name) = key
  THEN CHOOSE i \in 1..Len(companyMap) : normalizedName(companyMap[i].name) = key
  ELSE 0

\* One iteration of the loop of mergeCompaniesByName; st.val holds the Map's
\* values in insertion order.
mergeIteration(st, company, resp) ==
  The({ IF i = 0
        THEN [threw |-> FALSE, asked |-> st.asked,
              val |-> Append(st.val, company)]
        ELSE The({ [threw |-> m.threw, asked |-> st.asked \/ m.asked,
                    val |-> IF m.threw THEN st.val
                            ELSE [st.val EXCEPT ![i] = m.val]] :
                   m \in {mergeIntoExisting(st.val[i], company, resp)} }) :
        i \in {KeyIndex(st.val, normalizedName(company.name))} })

\* The loop of mergeCompaniesByName from observation k on, until it ends or
\* an iteration rejects.
RECURSIVE mergeLoop(_, _, _, _)
mergeLoop(companies, k, st, resp) ==
  IF k > Len(companies) \/ st.threw THEN st
  ELSE The({ mergeLoop(companies, k + 1, nx, resp) :
             nx \in {mergeIteration(st, companies[k], resp)} })

mergeCompaniesByName(companies, resp) ==
  mergeLoop(companies, 1, [threw |-> FALSE, asked |-> FALSE, val |-> <<>>], resp)

\* -------------------------------------------------------- Store Adapter
\* supabase.from('companies').select('*').in('name', names): the rows whose
\* name is one of the given strings
selectInNames(rows, names) ==
  SelectSeq(rows, LAMBDA row : Contains(names, row.name))

namesOf(companies) == [i \in 1..Len(companies) |-> companies[i].name]

\* existingCompanies.find(e => e.name.toLowerCase().trim() === key):
\* index of the first match, 0 for undefined
findExisting(existingCompanies, company) ==
  LET hit(i) == normalizedName(existingCompanies[i].name)
                  = normalizedName(company.name)
  IN IF \E i \in 1..Len(existingCompanies) : hit(i)
     THEN CHOOSE i \in 1..Len(existingCompanies) :
            hit(i) /\ \A j \in 1..(i - 1) : ~hit(j)
     ELSE 0

\* Step 3 of saveCompanies
newCompaniesOf(merged, existingCompanies) ==
  SelectSeq(merged, LAMBDA c : findExisting(existingCompanies, c) = 0)

companiesToUpdateOf(merged, existingCompanies) ==
  LET hits == SelectSeq(merged, LAMBDA c : findExisting(existingCompanies, c) # 0)
  IN [i \in 1..Len(hits) |->
        [existing |-> existingCompanies[findExisting(existingCompanies, hits[i])],
         newData |-> hits[i]]]

\* The row is inserted with the accreditation as it was observed.
insertData_rawAccreditation(company, md, id, now) ==
  [id |-> id,
   name |-> company.name,
   phones |-> cleanArrayValues(<<company.phone>>),
   principal_contacts |-> cleanArrayValues(<<company.principal_contact>>),
   urls |-> cleanArrayValues(<<company.url>>),
   addresses |-> cleanArrayValues(<<company.address>>),
   accreditation |-> company.accreditation,
   scraped_at |-> now,
   source_url |-> md.sourceUrl,
   page_count |-> md.pageCount]

\* Step 4: the row inserted for a new company; id and scraped_at are
\* assigned by the store
insertData(company, md, id, now) ==
  [id |-> id,
   name |-> company.name,
   phones |-> cleanArrayValues(<<company.phone>>),
   principal_contacts |-> cleanArrayValues(<<company.principal_contact>>),
   urls |-> cleanArrayValues(<<company.url>>),
   addresses |-> cleanArrayValues(<<company.address>>),
   accreditation |-> IF company.accreditation = "Unknown" THEN "null"
                     ELSE company.accreditation,
   scraped_at |-> now,
   source_url |-> md.sourceUrl,
   page_count |-> md.pageCount]

\* -------------------------------------------------- Record Merge Engine
\* hasNewInfo of updateExistingCompanyWithArrays
hasNewInfo(existing, newPhones, newPrincipalContacts, newUrls, newAddresses, newData) ==
  \/ ~arraysEqual(existing.phones, newPhones)
  \/ ~arraysEqual(existing.principal_contacts, newPrincipalContacts)
  \/ ~arraysEqual(existing.urls, newUrls)
  \/ ~arraysEqual(existing.addresses, newAddresses)
  \/ (newData.accreditation # "Unknown"
      /\ existing.accreditation # newData.accreditation)

\* The stored accreditation is kept whatever comes in.
updateAccreditation_keep(existing, newData) ==
  existing.accreditation

\* accreditation of updateData
updateAccreditation(existing, newData) ==
  IF newData.accreditation = "Unknown" THEN existing.accreditation
  ELSE newData.accreditation

\* The four awaited mergeArrays calls of updateExistingCompanyWithArrays,
\* in order: threw if one of them rejects, asked if one sent the request.
mergedArraysOf(existing, newData, resp) ==
  The({
     [threw |-> p.threw \/ c.threw \/ u.threw \/ a.threw,
      asked |-> p.asked
                \/ (~p.threw /\ c.asked)
                \/ (~p.threw /\ ~c.threw /\ u.asked)
                \/ (~p.threw /\ ~c.threw /\ ~u.threw /\ a.asked),
      phones |-> p.val, principal_contacts |-> c.val,
      urls |-> u.val, addresses |-> a.val] :
     p \in {mergeArrays(existing.phones, parseMultiValue(newData.phone), resp)},
     c \in {mergeArrays(existing.principal_contacts,
                        parseMultiValue(newData.principal_contact), resp)},
     u \in {mergeArrays(existing.urls, parseMultiValue(newData.url), resp)},
     a \in {mergeArrays(existing.addresses, parseMultiValue(newData.address),
                        resp)} })

\* updateData, laid over the existing row
updateDataOf(existing, newData, md, m) ==
  [existing EXCEPT
     !.phones = m.phones,
     !.principal_contacts = m.principal_contacts,
     !.urls = m.urls,
     !.addresses = m.addresses,
     !.accreditation = updateAccreditation(existing, newData),
     !.source_url = md.sourceUrl,
     !.page_count = md.pageCount]

\* The update is sent before the check for new information.
updateExistingCompanyWithArrays_writeFirst(existing, newData, md, resp, dbOk) ==
  The({ The({ IF m.threw
              THEN [outcome |-> "Threw", asked |-> m.asked, write |-> FALSE,
                    sent |-> FALSE, updateData |-> existing, data |-> existing]
              ELSE IF ~dbOk
              THEN [outcome |-> "Threw", asked |-> m.asked, write |-> FALSE,
                    sent |-> TRUE, updateData |-> updateData, data |-> existing]
              ELSE [outcome |-> IF changed THEN "Updated" ELSE "NoChange",
                    asked |-> m.asked, write |-> TRUE, sent |-> TRUE,
                    updateData |-> updateData, data |-> updateData] :
              updateData \in {updateDataOf(existing, newData, md, m)},
              changed \in {hasNewInfo(existing, m.phones, m.principal_contacts,
                                      m.urls, m.addresses, newData)} }) :
        m \in {mergedArraysOf(existing, newData, resp)} })

\* updateExistingCompanyWithArrays(existing, newData, metadata), the oracle
\* answering `resp` and the store's update answering dbOk.
\*   outcome "NoChange": returns null;  "Updated": returns the written row;
\*   "Threw": rejects.
\*   sent: the update was sent to the store; write: and it succeeded.
\*   updateData: the row as the update would write it.
updateExistingCompanyWithArrays(existing, newData, md, resp, dbOk) ==
  The({ The({ IF m.threw
              THEN [outcome |-> "Threw", asked |-> m.asked, write |-> FALSE,
                    sent |-> FALSE, updateData |-> existing, data |-> existing]
              ELSE IF ~hasNewInfo(existing, m.phones, m.principal_contacts,
                                  m.urls, m.addresses, newData)
              THEN [outcome |-> "NoChange", asked |-> m.asked, write |-> FALSE,
                    sent |-> FALSE, updateData |-> updateData, data |-> existing]
              ELSE IF ~dbOk
              THEN [outcome |-> "Threw", asked |-> m.asked, write |-> FALSE,
                    sent |-> TRUE, updateData |-> updateData, data |-> existing]
              ELSE [outcome |-> "Updated", asked |-> m.asked, write |-> TRUE,
                    sent |-> TRUE, updateData |-> updateData,
                    data |-> updateData] :
              updateData \in {updateDataOf(existing, newData, md, m)} }) :
        m \in {mergedArraysOf(existing, newData, resp)} })

\* ---------------------------------------------------------- formatPhone
Digits == {"0", "1", "2", "3", "4", "5", "6", "7", "8", "9"}

\* phone.replace(/\D/g, '')
digitsOf(phone) == SelectSeq(phone, LAMBDA c : c \in Digits)

\* The country digit of an 11-digit number is kept behind the added "+1".
formatPhone_keepCountryDigit(phone) ==
  IF phone = <<>> \/ phone = NA THEN NA
  ELSE The({ IF Len(digits) = 10 \/ (Len(digits) = 11 /\ digits[1] = "1")
             THEN <<"+", "1">> \o digits
             ELSE phone :
             digits \in {digitsOf(phone)} })

\* PhaseBScraper.formatPhone(phone)
formatPhone(phone) ==
  IF phone = <<>> \/ phone = NA THEN NA
  ELSE The({ IF Len(digits) = 10 THEN <<"+", "1">> \o digits
             ELSE IF Len(digits) = 11 /\ digits[1] = "1"
             THEN <<"+", "1">> \o SubSeq(digits, 2, Len(digits))
             ELSE phone :
             digits \in {digitsOf(phone)} })

\* MinimalStagehandScraper.formatPhone(phone)
minimalFormatPhone(phone) ==
  IF phone = <<>> \/ phone = NA THEN NA
  ELSE The({ IF Len(digits) = 10 THEN <<"+", "1">> \o digits
             ELSE IF Len(digits) = 11 /\ digits[1] = "1"
             THEN <<"+">> \o digits
             ELSE phone :
             digits \in {digitsOf(phone)} })

\* --------------------------------------------------------------- inputs
Obs(n, p, c, u, a, acc) ==
  [name |-> n, phone |-> p, principal_contact |-> c, url |-> u,
   address |-> a, accreditation |-> acc]

\* Two observations of company "a", the second one written " A", one of
\* company "b" and one whose name is a single blank.  Between them: two
\* different phones, two contacts that differ only in surrounding
\* whitespace, the sentinels "N/A", "" and " ", and the three accreditation
\* values.
Observations ==
  { Obs(<<"a">>, <<"x">>, <<"p">>, <<"u">>, <<"d">>, "Accredited"),
    Obs(<<" ", "A">>, <<"y">>, <<" ", "p">>, <<>>, NA, "Non-Accredited"),
    Obs(<<"b">>, <<"x">>, NA, <<"u">>, <<" ">>, "Unknown"),
    Obs(<<" ">>, <<"x">>, NA, <<>>, NA, "Unknown") }

SeqsUpTo(S, n) == UNION {[1..k -> S] : k \in 1..n}

\* The batches a run can be given when `n` observations can still be saved
Batches(n) == SeqsUpTo(Observations, n)

\* The metadata of the run numbered `run`: every run scrapes its own
\* number of pages.
metadataOf(run) ==
  [sourceUrl |-> IF run % 2 = 1 THEN "s1" ELSE "s2", pageCount |-> run]

NoMetadata == [sourceUrl |-> "", pageCount |-> 0]
NoResult == [savedCompanies |-> <<>>, duplicatesSkipped |-> 0,
             duplicatesUpdated |-> 0, totalProcessed |-> 0]
NoMerge == [outcome |-> "none"]
NoCall == [fn |-> "none"]
NoScrape == [pc |-> "idle"]
NoRun == [pc |-> "idle", metadata |-> NoMetadata, newCompanies |-> <<>>,
          companiesToUpdate |-> <<>>]

\* ------------------------------------------------------- POST /api/scrape
CsvHeaders == <<"name", "phone", "principal_contact", "url", "address",
                "accreditation">>

\* arr.join(sep)
RECURSIVE joinWith(_, _)
joinWith(arr, sep) ==
  IF arr = <<>> THEN <<>>
  ELSE IF Len(arr) = 1 THEN arr[1]
  ELSE arr[1] \o sep \o joinWith(Tail(arr), sep)

\* item[header] || '' ; the accreditation is one token
csvValue(item, header) ==
  IF header = "accreditation" THEN <<item.accreditation>> ELSE item[header]

\* One cell of jsonToCsv: quotes doubled, quoted if it holds a comma
csvCell(value) ==
  The({ IF Contains(escaped, ",") THEN <<"\"">> \o escaped \o <<"\"">>
        ELSE escaped :
        escaped \in {joinWith([i \in 1..Len(value) |->
                                 IF value[i] = "\"" THEN <<"\"", "\"">>
                                 ELSE <<value[i]>>], <<>>)} })

\* jsonToCsv(data)
jsonToCsv(data) ==
  IF Len(data) = 0 THEN <<>>
  ELSE joinWith(
         <<joinWith([h \in 1..Len(CsvHeaders) |-> <<CsvHeaders[h]>>], <<",">>)>>
         \o [i \in 1..Len(data) |->
               joinWith([h \in 1..Len(CsvHeaders) |->
                           csvCell(csvValue(data[i], CsvHeaders[h]))], <<",">>)],
         <<"\n">>)

\* arr?.[0] || 'N/A'
firstOrNA(arr) ==
  IF arr.isNull \/ arr.items = <<>> \/ arr.items[1] = <<>> THEN NA
  ELSE arr.items[1]

\* The stored rows in the shape the page shows
consolidatedDataOf(companies) ==
  [i \in 1..Len(companies) |->
     Obs(companies[i].name, firstOrNA(companies[i].phones),
         firstOrNA(companies[i].principal_contacts),
         firstOrNA(companies[i].urls), firstOrNA(companies[i].addresses),
         IF companies[i].accreditation = "null" THEN "Unknown"
         ELSE companies[i].accreditation)]

ErrorResponse(message) ==
  [status |-> 500, kind |-> "error", error |-> message, success |-> FALSE,
   data |-> <<>>, csv |-> <<>>, totalCompanies |-> 0,
   savedToDatabase |-> FALSE, savedCount |-> 0, duplicatesSkipped |-> 0,
   duplicatesUpdated |-> 0, totalProcessed |-> 0]

\* An error of the database block is handled by the outer catch.
POST_failOnSaveError(body, apiValid, scraped, save, lookup) ==
  IF ~apiValid THEN ErrorResponse("OpenAI API configuration error")
  ELSE IF ~scraped.success THEN ErrorResponse("Stagehand scraping failed")
  ELSE The({
    IF attempted /\ (save.threw \/ lookup.threw)
    THEN ErrorResponse("Internal server error")
    ELSE The({
      IF body.format = "csv"
      THEN [ErrorResponse("") EXCEPT !.status = 200, !.kind = "csv",
                                    !.csv = jsonToCsv(scraped.data)]
      ELSE [status |-> 200, kind |-> "json", error |-> "", success |-> TRUE,
            data |-> consolidatedData, csv |-> <<>>,
            totalCompanies |-> Len(consolidatedData),
            savedToDatabase |-> attempted,
            savedCount |-> IF attempted THEN Len(save.val.savedCompanies) ELSE 0,
            duplicatesSkipped |-> IF attempted THEN save.val.duplicatesSkipped ELSE 0,
            duplicatesUpdated |-> IF attempted THEN save.val.duplicatesUpdated ELSE 0,
            totalProcessed |-> IF attempted THEN save.val.totalProcessed ELSE 0] :
      consolidatedData \in
        {IF attempted THEN consolidatedDataOf(lookup.companies)
         ELSE scraped.data} }) :
    attempted \in {body.saveToDatabase /\ Len(scraped.data) > 0} })

\* POST(request): the handler from the scrape result on.
\*   scraped: what scraper.scrape / scrapeBBB resolved with
\*   save:    saveCompanies rejects (threw) or resolves with val
\*   lookup:  getCompaniesByNames rejects (threw) or resolves with companies
POST(body, apiValid, scraped, save, lookup) ==
  IF ~apiValid THEN ErrorResponse("OpenAI API configuration error")
  ELSE IF ~scraped.success THEN ErrorResponse("Stagehand scraping failed")
  ELSE The({
    IF body.format = "csv"
    THEN [ErrorResponse("") EXCEPT !.status = 200, !.kind = "csv",
                                  !.csv = jsonToCsv(scraped.data)]
    ELSE [status |-> 200, kind |-> "json", error |-> "", success |-> TRUE,
          data |-> consolidatedData, csv |-> <<>>,
          totalCompanies |-> Len(consolidatedData),
          savedToDatabase |-> saved,
          savedCount |-> IF saved THEN Len(save.val.savedCompanies) ELSE 0,
          duplicatesSkipped |-> IF saved THEN save.val.duplicatesSkipped ELSE 0,
          duplicatesUpdated |-> IF saved THEN save.val.duplicatesUpdated ELSE 0,
          totalProcessed |-> IF saved THEN save.val.totalProcessed ELSE 0] :
    saved \in {body.saveToDatabase /\ Len(scraped.data) > 0 /\ ~save.threw},
    consolidatedData \in
      {IF body.saveToDatabase /\ Len(scraped.data) > 0 /\ ~save.threw
          /\ ~lookup.threw
       THEN consolidatedDataOf(lookup.companies)
       ELSE scraped.data} })

\* ------------------------------------------------------ saveCompanies
Init ==
  /\ store = <<>>
  /\ apiKey \in BOOLEAN
  /\ pc = "idle"
  /\ batch = <<>>
  /\ metadata = NoMetadata
  /\ mergedCompanies = <<>>
  /\ newCompanies = <<>>
  /\ companiesToUpdate = <<>>
  /\ result = NoResult
  /\ clock = 0
  /\ observed = 0
  /\ rerun = "no"
  /\ storeAtStart = <<>>
  /\ writeFailed = FALSE
  /\ lastMerge = NoMerge
  /\ fnIn = NoCall
  /\ fnOut = NoCall
  /\ other = NoRun
  /\ scraper = NoScrape

\* Entry of saveCompanies: the result object is created and step 1 runs up
\* to its first oracle request.  If it sends none, step 1 is complete and
\* the run waits for the store's answer to the lookup of step 2.
Begin(companies, md, again) ==
  /\ observed + Len(companies) <= MaxObservations
  /\ observed' = observed + Len(companies)
  /\ clock' = clock + 1
  /\ batch' = companies
  /\ metadata' = md
  /\ result' = [NoResult EXCEPT !.totalProcessed = Len(companies)]
  /\ \E r \in {mergeCompaniesByName(companies, "error")} :
       IF r.asked
       THEN /\ pc' = "merge"
            /\ mergedCompanies' = <<>>
       ELSE /\ pc' = "lookup"
            /\ mergedCompanies' = r.val
  /\ newCompanies' = <<>>
  /\ companiesToUpdate' = <<>>
  /\ rerun' = again
  /\ storeAtStart' = store
  /\ writeFailed' = FALSE
  /\ lastMerge' = NoMerge
  /\ UNCHANGED <<store, apiKey, fnIn, fnOut, other, scraper>>

SaveCompanies(companies) ==
  /\ pc = "idle"
  /\ Begin(companies, metadataOf(clock + 1), "no")

\* The caller runs saveCompanies again on the batch it has just saved.
SaveCompaniesAgain ==
  /\ pc = "done"
  /\ Begin(batch, metadata, IF writeFailed THEN "dirty" ELSE "clean")

\* Step 1 is waiting for the oracle, which answers `resp`.
MergeWithOracle(resp) ==
  /\ pc = "merge"
  /\ \E r \in {mergeCompaniesByName(batch, resp)} :
       /\ r.asked
       /\ IF r.threw
          THEN /\ pc' = "failed"
               /\ UNCHANGED mergedCompanies
          ELSE /\ pc' = "lookup"
               /\ mergedCompanies' = r.val
  /\ UNCHANGED <<store, apiKey, batch, metadata, newCompanies,
                 companiesToUpdate, result, clock, observed, rerun,
                 storeAtStart, writeFailed, lastMerge, fnIn, fnOut, other, scraper>>

\* A failed lookup is taken for "no company exists yet" and the run goes on.
Lookup_ignoreError(dbOk) ==
  /\ pc = "lookup"
  /\ \E existingCompanies \in
         {IF dbOk THEN selectInNames(store, namesOf(mergedCompanies)) ELSE <<>>} :
     \E toInsert \in {newCompaniesOf(mergedCompanies, existingCompanies)},
        toUpdate \in {companiesToUpdateOf(mergedCompanies, existingCompanies)} :
       /\ newCompanies' = toInsert
       /\ companiesToUpdate' = toUpdate
       /\ pc' = IF toInsert # <<>> THEN "insert"
                ELSE IF toUpdate # <<>> THEN "update"
                ELSE "done"
       /\ writeFailed' = (writeFailed \/ ~dbOk)
  /\ UNCHANGED <<store, apiKey, batch, metadata, mergedCompanies, result,
                 clock, observed, rerun, storeAtStart, lastMerge, fnIn, fnOut, other, scraper>>

\* Steps 2 and 3: getExistingCompaniesByNames, then the split into
\* newCompanies and companiesToUpdate.
Lookup(dbOk) ==
  /\ pc = "lookup"
  /\ \E names \in {namesOf(mergedCompanies)} :
       IF Len(names) > 0 /\ ~dbOk
       THEN /\ pc' = "failed"
            /\ writeFailed' = TRUE
            /\ UNCHANGED <<newCompanies, companiesToUpdate>>
       ELSE \E existingCompanies \in
                 {IF Len(names) = 0 THEN <<>> ELSE selectInNames(store, names)} :
            \E toInsert \in {newCompaniesOf(mergedCompanies, existingCompanies)},
               toUpdate \in {companiesToUpdateOf(mergedCompanies, existingCompanies)} :
              /\ newCompanies' = toInsert
              /\ companiesToUpdate' = toUpdate
              /\ pc' = IF toInsert # <<>> THEN "insert"
                       ELSE IF toUpdate # <<>> THEN "update"
                       ELSE "done"
              /\ UNCHANGED writeFailed
  /\ UNCHANGED <<store, apiKey, batch, metadata, mergedCompanies, result,
                 clock, observed, rerun, storeAtStart, lastMerge, fnIn, fnOut, other, scraper>>

\* Step 4: one bulk insert of all new companies.
Insert(dbOk) ==
  /\ pc = "insert"
  /\ IF ~dbOk
     THEN /\ pc' = "failed"
          /\ writeFailed' = TRUE
          /\ UNCHANGED <<store, result>>
     ELSE \E rows \in {[i \in 1..Len(newCompanies) |->
                           insertData(newCompanies[i], metadata,
                                      Len(store) + i, clock)]} :
             /\ store' = store \o rows
             /\ result' = [result EXCEPT !.savedCompanies =
                             @ \o [i \in 1..Len(rows) |-> rows[i].id]]
             /\ pc' = IF companiesToUpdate # <<>> THEN "update" ELSE "done"
             /\ UNCHANGED writeFailed
  /\ UNCHANGED <<apiKey, batch, metadata, mergedCompanies, newCompanies,
                 companiesToUpdate, clock, observed, rerun, storeAtStart,
                 lastMerge, fnIn, fnOut, other, scraper>>

\* supabase update(updateData).eq('id', id): the listed columns of the row
\* with that id are overwritten
updateRow(rows, id, data) ==
  [i \in 1..Len(rows) |->
     IF rows[i].id = id
     THEN [rows[i] EXCEPT !.phones = data.phones,
                          !.principal_contacts = data.principal_contacts,
                          !.urls = data.urls,
                          !.addresses = data.addresses,
                          !.accreditation = data.accreditation,
                          !.source_url = data.source_url,
                          !.page_count = data.page_count]
     ELSE rows[i]]

\* One iteration of the loop of step 5, with its try/catch.
UpdateIteration(r) ==
  LET item == companiesToUpdate[1]
      rest == Tail(companiesToUpdate)
  IN /\ store' = IF r.write THEN updateRow(store, item.existing.id, r.data)
                 ELSE store
     /\ result' =
          IF r.outcome = "Updated"
          THEN [result EXCEPT !.savedCompanies = Append(@, item.existing.id),
                              !.duplicatesUpdated = @ + 1]
          ELSE [result EXCEPT !.duplicatesSkipped = @ + 1]
     /\ writeFailed' = (writeFailed \/ (r.outcome = "Threw" /\ r.sent))
     /\ lastMerge' = [outcome |-> r.outcome, existing |-> item.existing,
                      newData |-> item.newData, updateData |-> r.updateData]
     /\ companiesToUpdate' = rest
     /\ pc' = IF rest # <<>> THEN "update" ELSE "done"
     /\ UNCHANGED <<apiKey, batch, metadata, mergedCompanies, newCompanies,
                    clock, observed, rerun, storeAtStart, fnIn, fnOut, other, scraper>>

UpdateLocal(dbOk) ==
  /\ pc = "update"
  /\ \E r \in {updateExistingCompanyWithArrays(
                   companiesToUpdate[1].existing, companiesToUpdate[1].newData,
                   metadata, "error", dbOk)} :
       /\ ~r.asked
       /\ (r.sent \/ dbOk)
       /\ UpdateIteration(r)

UpdateWithOracle(resp, dbOk) ==
  /\ pc = "update"
  /\ \E r \in {updateExistingCompanyWithArrays(
                   companiesToUpdate[1].existing, companiesToUpdate[1].newData,
                   metadata, resp, dbOk)} :
       /\ r.asked
       /\ (r.sent \/ dbOk)
       /\ UpdateIteration(r)

\* The promise of saveCompanies has settled and the caller has taken the
\* result (pc = "done") or the rejection (pc = "failed").
Settle ==
  /\ pc \in {"done", "failed"}
  /\ pc' = "idle"
  /\ batch' = <<>>
  /\ metadata' = NoMetadata
  /\ mergedCompanies' = <<>>
  /\ newCompanies' = <<>>
  /\ companiesToUpdate' = <<>>
  /\ result' = NoResult
  /\ rerun' = "no"
  /\ storeAtStart' = <<>>
  /\ writeFailed' = FALSE
  /\ lastMerge' = NoMerge
  /\ UNCHANGED <<store, apiKey, clock, observed, fnIn, fnOut, other, scraper>>

Next ==
  \/ \E companies \in Batches(MaxObservations - observed) : SaveCompanies(companies)
  \/ SaveCompaniesAgain
  \/ \E resp \in OracleResponses : MergeWithOracle(resp)
  \/ \E dbOk \in BOOLEAN : Lookup(dbOk)
  \/ \E dbOk \in BOOLEAN : Insert(dbOk)
  \/ \E dbOk \in BOOLEAN : UpdateLocal(dbOk)
  \/ \E resp \in OracleResponses, dbOk \in BOOLEAN : UpdateWithOracle(resp, dbOk)
  \/ Settle

Spec == Init /\ [][Next]_vars

\* ------------------------------------------------- two calls at a time
\* saveCompanies is a static async method called by the POST handler of the
\* route: a second request can call it while the first call waits at one of
\* its awaits.  The second call runs the same steps; its step 1 touches no
\* shared state and is taken in one step with the oracle's answer, and the
\* call leaves no trace once it has resolved or rejected.
RunFrame ==
  UNCHANGED <<apiKey, pc, batch, metadata, mergedCompanies, newCompanies,
              companiesToUpdate, result, rerun, storeAtStart, writeFailed,
              lastMerge, fnIn, fnOut, scraper>>

\* Entry and step 1 of the second call
OtherSaveCompanies(companies, resp) ==
  /\ other.pc = "idle"
  /\ pc \in {"merge", "lookup", "insert", "update"}
  /\ observed + Len(companies) <= MaxObservations
  /\ observed' = observed + Len(companies)
  /\ clock' = clock + 1
  /\ \E r \in {mergeCompaniesByName(companies, resp)} :
       other' = IF r.threw THEN NoRun
                ELSE [pc |-> "lookup", metadata |-> metadataOf(clock + 1),
                      newCompanies |-> r.val, companiesToUpdate |-> <<>>]
  /\ UNCHANGED store
  /\ RunFrame

\* Steps 2 and 3 of the second call; until the lookup has answered,
\* other.newCompanies holds the merged candidates
OtherLookup(dbOk) ==
  /\ other.pc = "lookup"
  /\ IF ~dbOk
     THEN other' = NoRun
     ELSE \E existingCompanies \in
               {selectInNames(store, namesOf(other.newCompanies))} :
          \E toInsert \in {newCompaniesOf(other.newCompanies, existingCompanies)},
             toUpdate \in {companiesToUpdateOf(other.newCompanies,
                                               existingCompanies)} :
            other' = IF toInsert = <<>> /\ toUpdate = <<>> THEN NoRun
                     ELSE [other EXCEPT
                             !.pc = IF toInsert # <<>> THEN "insert" ELSE "update",
                             !.newCompanies = toInsert,
                             !.companiesToUpdate = toUpdate]
  /\ UNCHANGED <<store, clock, observed>>
  /\ RunFrame

\* Step 4 of the second call
OtherInsert(dbOk) ==
  /\ other.pc = "insert"
  /\ IF ~dbOk
     THEN /\ other' = NoRun
          /\ UNCHANGED store
     ELSE /\ store' = store \o
                 [i \in 1..Len(other.newCompanies) |->
                    insertData(other.newCompanies[i], other.metadata,
                               Len(store) + i, clock)]
          /\ other' = IF other.companiesToUpdate = <<>> THEN NoRun
                      ELSE [other EXCEPT !.pc = "update", !.newCompanies = <<>>]
  /\ UNCHANGED <<clock, observed>>
  /\ RunFrame

\* One iteration of the loop of step 5 of the second call
OtherUpdate(resp, dbOk) ==
  /\ other.pc = "update"
  /\ \E r \in {updateExistingCompanyWithArrays(
                   other.companiesToUpdate[1].existing,
                   other.companiesToUpdate[1].newData,
                   other.metadata, resp, dbOk)} :
       /\ (r.sent \/ dbOk)
       /\ store' = IF r.write
                   THEN updateRow(store, other.companiesToUpdate[1].existing.id,
                                  r.data)
                   ELSE store
       /\ other' = IF Len(other.companiesToUpdate) = 1 THEN NoRun
                   ELSE [other EXCEPT !.companiesToUpdate = Tail(@)]
  /\ UNCHANGED <<clock, observed>>
  /\ RunFrame

OtherNext ==
  \/ \E companies \in Batches(MaxConcurrentBatch), resp \in OracleResponses :
       OtherSaveCompanies(companies, resp)
  \/ \E dbOk \in BOOLEAN : OtherLookup(dbOk)
  \/ \E dbOk \in BOOLEAN : OtherInsert(dbOk)
  \/ \E resp \in OracleResponses, dbOk \in BOOLEAN : OtherUpdate(resp, dbOk)

ConcNext == Next \/ OtherNext

ConcSpec == Init /\ [][ConcNext]_vars

\* ------------------------------------------- functions applied on their own
\* The Similarity Judge and the Record Merge Engine applied once to
\* arguments of their parameter types (string[], string[] | null, Company).
JudgeValues == {<<"x">>, <<"y">>}
JudgeLists == {<<>>} \cup SeqsUpTo(JudgeValues, MaxJudgeLen)
NullableLists == {Null} \cup {Arr(l) : l \in JudgeLists}

ExistingRows ==
  { [id |-> 1, name |-> <<"a">>, phones |-> ph, principal_contacts |-> pcs,
     urls |-> us, addresses |-> ads, accreditation |-> acc,
     scraped_at |-> 1, source_url |-> "s1", page_count |-> 1] :
    ph \in {Null, Arr(<<>>), Arr(<<<<"x">>>>), Arr(<<<<"x">>, <<"y">>>>)},
    pcs \in {Null, Arr(<<>>), Arr(<<<<"p">>>>)},
    us \in {Null, Arr(<<<<"u">>>>)},
    ads \in {Null, Arr(<<<<"d">>>>)},
    acc \in {"null", "Accredited", "Non-Accredited"} }

\* Observations of the companies "a" (also written " A") and "b" with the
\* three accreditation values and one more string, as the extraction may
\* return any (accreditation: string)
Accreditations == {"Accredited", "Non-Accredited", "Unknown", "A+"}

GroupObservations ==
  { Obs(n, IF n = <<"a">> THEN <<"x">> ELSE <<"y">>, <<"p">>, <<"u">>, NA, acc) :
    n \in {<<"a">>, <<" ", "A">>, <<"b">>}, acc \in Accreditations }

\* The digit string of length n that starts with `lead`
DigitString(n, lead) ==
  [i \in 1..n |-> IF i = 1 THEN lead
                  ELSE The({d \in Digits : ToString(i % 10) = d})]

\* The digits written in groups of three with `sep` between the groups
RECURSIVE Punctuate(_, _)
Punctuate(digits, sep) ==
  IF Len(digits) <= 3 THEN digits
  ELSE SubSeq(digits, 1, 3) \o sep \o Punctuate(SubSeq(digits, 4, Len(digits)), sep)

\* Phone strings as a listing shows them: no digit to MaxDigits digits,
\* with or without the country digit 1, bare or punctuated, and 'N/A', ''
\* and a text without any digit
PhoneStrings ==
  { prefix \o Punctuate(DigitString(n, lead), sep) :
      n \in 0..MaxDigits, lead \in {"1", "2"},
      sep \in {<<>>, <<"-">>, <<")", " ">>},
      prefix \in {<<>>, <<"+">>, <<"(">>} }
  \cup {NA, <<"c", "a", "l", "l">>}

\* The number of the scenario, as stored and as three listings write it,
\* and a number that differs in its last digit
ScenarioDigits == <<"2", "1", "0", "7", "3", "3", "1", "8", "0", "2">>
StoredPhone == <<"+", "1">> \o ScenarioDigits
ListedPhones ==
  { StoredPhone,
    <<"+", "1", " ", "(">> \o SubSeq(ScenarioDigits, 1, 3) \o <<")", " ">>
      \o SubSeq(ScenarioDigits, 4, 6) \o <<"-">> \o SubSeq(ScenarioDigits, 7, 10),
    SubSeq(ScenarioDigits, 1, 3) \o <<"-">> \o SubSeq(ScenarioDigits, 4, 6)
      \o <<"-">> \o SubSeq(ScenarioDigits, 7, 10),
    <<"+", "1">> \o SubSeq(ScenarioDigits, 1, 9) \o <<"3">> }

PhoneRow ==
  [id |-> 1, name |-> <<"a">>, phones |-> Arr(<<StoredPhone>>),
   principal_contacts |-> Arr(<<<<"p">>>>), urls |-> Arr(<<<<"u">>>>),
   addresses |-> Arr(<<<<"d">>>>), accreditation |-> "Accredited",
   scraped_at |-> 1, source_url |-> "s1", page_count |-> 1]

PhoneObservations ==
  { Obs(<<"a">>, p, <<"p">>, <<"u">>, <<"d">>, acc) :
      p \in ListedPhones, acc \in {"Accredited", "Unknown"} }

\* What scraper.scrape resolves with: a failure, or up to MaxScraped
\* companies
ScrapeResults ==
  { [success |-> FALSE, data |-> <<>>, totalCompanies |-> 0] }
  \cup
  { [success |-> TRUE, data |-> d, totalCompanies |-> Len(d)] :
      d \in {<<>>} \cup SeqsUpTo(Observations, MaxScraped) }

\* What saveCompanies(data, metadata) can settle with: a rejection, every
\* company saved as new, or every company skipped
SaveOutcomes(data) ==
  { [threw |-> TRUE, val |-> NoResult],
    [threw |-> FALSE,
     val |-> [savedCompanies |-> [i \in 1..Len(data) |-> i],
              duplicatesSkipped |-> 0, duplicatesUpdated |-> 0,
              totalProcessed |-> Len(data)]],
    [threw |-> FALSE,
     val |-> [savedCompanies |-> <<>>, duplicatesSkipped |-> Len(data),
              duplicatesUpdated |-> 0, totalProcessed |-> Len(data)]] }

\* What getCompaniesByNames(names) can settle with: a rejection, no row,
\* or the rows as inserted
LookupOutcomes(data) ==
  { [threw |-> TRUE, companies |-> <<>>],
    [threw |-> FALSE, companies |-> <<>>],
    [threw |-> FALSE,
     companies |-> [i \in 1..Len(data) |->
                      insertData(data[i], NoMetadata, i, 1)]] }

FnInputs ==
  { [fn |-> "judge", existing |-> e, candidates |-> c] :
      e \in NullableLists, c \in JudgeLists }
  \cup
  { [fn |-> "merge", existing |-> e, newData |-> d] :
      e \in ExistingRows, d \in Observations }
  \cup
  { [fn |-> "merge", existing |-> PhoneRow, newData |-> d] :
      d \in PhoneObservations }
  \cup
  { [fn |-> "POST", body |-> [format |-> f, saveToDatabase |-> sv],
     apiValid |-> v, scraped |-> sr] :
      f \in {"json", "csv"}, sv \in BOOLEAN, v \in BOOLEAN,
      sr \in ScrapeResults }
  \cup
  { [fn |-> "phone", scraper |-> sc, phone |-> p] :
      sc \in {"PhaseBScraper", "MinimalStagehandScraper"},
      p \in PhoneStrings \cup ListedPhones }
  \cup
  { [fn |-> "batch", companies |-> b] : b \in SeqsUpTo(GroupObservations, MaxGroup) }

FnInit ==
  /\ store = <<>>
  /\ apiKey \in BOOLEAN
  /\ pc = "fn"
  /\ batch = <<>>
  /\ metadata = metadataOf(2)
  /\ mergedCompanies = <<>>
  /\ newCompanies = <<>>
  /\ companiesToUpdate = <<>>
  /\ result = NoResult
  /\ clock = 0
  /\ observed = 0
  /\ rerun = "no"
  /\ storeAtStart = <<>>
  /\ writeFailed = FALSE
  /\ lastMerge = NoMerge
  /\ fnIn \in FnInputs
  /\ fnOut = NoCall
  /\ other = NoRun
  /\ scraper = NoScrape

FnFrame ==
  UNCHANGED <<store, apiKey, pc, batch, metadata, mergedCompanies,
              newCompanies, companiesToUpdate, result, clock, observed, rerun,
              storeAtStart, writeFailed, lastMerge, fnIn, other, scraper>>

ApplyDeduplicateWithAI(resp) ==
  /\ fnIn.fn = "judge"
  /\ fnOut = NoCall
  /\ fnOut' = [fn |-> "deduplicateWithAI", resp |-> resp,
               out |-> deduplicateWithAI(Items(fnIn.existing),
                                         fnIn.candidates, resp)]
  /\ FnFrame

ApplyMergeArrays(resp) ==
  /\ fnIn.fn = "judge"
  /\ fnOut = NoCall
  /\ fnOut' = [fn |-> "mergeArrays", resp |-> resp,
               out |-> mergeArrays(fnIn.existing, fnIn.candidates, resp)]
  /\ FnFrame

ApplyUpdateExistingCompanyWithArrays(resp, dbOk) ==
  /\ fnIn.fn = "merge"
  /\ fnOut = NoCall
  /\ fnOut' = [fn |-> "updateExistingCompanyWithArrays", resp |-> resp,
               out |-> updateExistingCompanyWithArrays(
                         fnIn.existing, fnIn.newData, metadata, resp, dbOk)]
  /\ FnFrame

ApplyMergeCompaniesByName(resp) ==
  /\ fnIn.fn = "batch"
  /\ fnOut = NoCall
  /\ fnOut' = [fn |-> "mergeCompaniesByName", resp |-> resp,
               out |-> mergeCompaniesByName(fnIn.companies, resp)]
  /\ FnFrame

\* formatPhone of either scraper, and formatPhone of its result
ApplyFormatPhone ==
  /\ fnIn.fn = "phone"
  /\ fnOut = NoCall
  /\ \E r \in {IF fnIn.scraper = "PhaseBScraper" THEN formatPhone(fnIn.phone)
                ELSE minimalFormatPhone(fnIn.phone)} :
       fnOut' = [fn |-> "formatPhone", out |-> r,
                 twice |-> IF fnIn.scraper = "PhaseBScraper" THEN formatPhone(r)
                           ELSE minimalFormatPhone(r)]
  /\ FnFrame

\* result.data of the request in hand
scrapedData == IF fnIn.fn = "POST" THEN fnIn.scraped.data ELSE <<>>

ApplyPOST(save, lookup) ==
  /\ fnIn.fn = "POST"
  /\ fnOut = NoCall
  /\ fnOut' = [fn |-> "POST", save |-> save, lookup |-> lookup,
               out |-> POST(fnIn.body, fnIn.apiValid, fnIn.scraped, save,
                            lookup)]
  /\ FnFrame

FnNext ==
  \/ ApplyFormatPhone
  \/ \E save \in SaveOutcomes(scrapedData),
        lookup \in LookupOutcomes(scrapedData) : ApplyPOST(save, lookup)
  \/ \E resp \in OracleResponses : ApplyMergeCompaniesByName(resp)
  \/ \E resp \in OracleResponses : ApplyDeduplicateWithAI(resp)
  \/ \E resp \in OracleResponses : ApplyMergeArrays(resp)
  \/ \E resp \in OracleResponses, dbOk \in BOOLEAN :
       ApplyUpdateExistingCompanyWithArrays(resp, dbOk)

FnSpec == FnInit /\ [][FnNext]_vars

\* -------------------------------------------------------------- fairness
\* Every step of a run that waits for the store or for nothing is
\* eventually taken; a step that waits for the oracle is taken only if the
\* oracle answers, which nothing in the code enforces.
LocalStep ==
  \/ \E dbOk \in BOOLEAN : Lookup(dbOk)
  \/ \E dbOk \in BOOLEAN : Insert(dbOk)
  \/ \E dbOk \in BOOLEAN : UpdateLocal(dbOk)

FairSpec == Spec /\ WF_vars(LocalStep)

\* ------------------------------------------------- PhaseBScraper.scrape
BATCH_SIZE == 5

Min(a, b) == IF a <= b THEN a ELSE b

\* s.includes(sub)
includes(s, sub) ==
  \E i \in 1..(Len(s) - Len(sub) + 1) : SubSeq(s, i, i + Len(sub) - 1) = sub

BbbOrg == <<"b", "b", "b", ".", "o", "r", "g">>

digitOf(k) == The({d \in Digits : ToString(k % 10) = d})

\* The k-th company of a listing as extractCompaniesFromPage returns it:
\* the phone formatted, no principal contact yet, and a profile URL on
\* bbb.org except for every third company, whose URL is 'N/A' or that of
\* another site.
Company(k) ==
  Obs(<<"c", digitOf(k)>>,
      formatPhone(IF k % 2 = 0 THEN Punctuate(ScenarioDigits, <<"-">>) ELSE <<>>),
      NA,
      IF k % 3 # 0 THEN BbbOrg \o <<"/", digitOf(k)>>
      ELSE IF k % 2 = 0 THEN <<"x", ".", "o", "r", "g">> ELSE NA,
      <<"d">>,
      IF k % 2 = 0 THEN "Accredited" ELSE "Unknown")

\* The n companies of the page that follows `offset` companies; the eighth
\* company of a scrape is listed a second time, being the first one.
listing(offset, n) ==
  [k \in 1..n |-> Company(IF (offset + k) % 8 = 0 THEN 1 ELSE offset + k)]

validCompanies(companies) ==
  SelectSeq(companies,
            LAMBDA c : c.url # <<>> /\ c.url # NA /\ includes(c.url, BbbOrg))

invalidCompanies(companies) ==
  SelectSeq(companies,
            LAMBDA c : c.url = <<>> \/ c.url = NA \/ ~includes(c.url, BbbOrg))

\* The batch is not cut to BATCH_SIZE companies.
batchOf_whole(valid, i) ==
  SubSeq(valid, i + 1, Len(valid))

\* validCompanies.slice(i, i + BATCH_SIZE)
batchOf(valid, i) ==
  SubSeq(valid, i + 1, Min(i + BATCH_SIZE, Len(valid)))

\* a || b on strings
orElse(a, b) == IF a = <<>> THEN b ELSE a

\* How a profile fetch can end:
\*   "details"  the extraction returned a contact and an address
\*   "empty"    it returned neither, or its answer could not be parsed
\*   "caught"   init, goto, extract or close threw: the catch block
\*              returns the company
\*   "rejected" the promise rejects (the Stagehand constructor threw)
FetchOutcomes == {"details", "empty", "caught", "rejected"}
Pending == [status |-> "pending", value |-> <<>>]

\* processCompanyInParallel(company), settled
processCompanyInParallel(company, outcome) ==
  CASE outcome = "details" ->
         [status |-> "fulfilled",
          value |-> [company EXCEPT
                       !.principal_contact = orElse(<<"o">>, NA),
                       !.address = orElse(<<"e">>, company.address)]]
    [] outcome = "empty" ->
         [status |-> "fulfilled",
          value |-> [company EXCEPT
                       !.principal_contact = orElse(<<>>, NA),
                       !.address = orElse(<<>>, company.address)]]
    [] outcome = "caught" -> [status |-> "fulfilled", value |-> company]
    [] OTHER -> [status |-> "rejected", value |-> <<>>]

\* Only the fulfilled results are pushed.
batchResultsOf_fulfilledOnly(companies, results) ==
  The({ [k \in 1..Len(fulfilled) |-> fulfilled[k].value] :
        fulfilled \in {SelectSeq(results, LAMBDA r : r.status = "fulfilled")} })

\* batchResults.forEach(...): the value, or the company of the batch
batchResultsOf(companies, results) ==
  [k \in 1..Len(companies) |->
     IF results[k].status = "fulfilled" THEN results[k].value
     ELSE companies[k]]

NoScrapeResult == [success |-> FALSE, data |-> <<>>, totalCompanies |-> 0,
                   error |-> ""]

\* scrape(options) has been called and awaits stagehand.init()
StartScrape(m) ==
  [pc |-> "init", maxPages |-> m, currentPage |-> 1, allCompanies |-> <<>>,
   pageCompanies |-> <<>>, validCompanies |-> <<>>, invalidCompanies |-> <<>>,
   i |-> 0, batch |-> <<>>, inFlight |-> {}, results |-> <<>>,
   enhancedCompanies |-> <<>>, enhanced |-> FALSE, closeCalls |-> 0,
   failed |-> {}, error |-> "", result |-> NoScrapeResult]

ScrapeInit ==
  /\ store = <<>>
  /\ apiKey = TRUE
  /\ pc = "fn"
  /\ batch = <<>>
  /\ metadata = NoMetadata
  /\ mergedCompanies = <<>>
  /\ newCompanies = <<>>
  /\ companiesToUpdate = <<>>
  /\ result = NoResult
  /\ clock = 0
  /\ observed = 0
  /\ rerun = "no"
  /\ storeAtStart = <<>>
  /\ writeFailed = FALSE
  /\ lastMerge = NoMerge
  /\ fnIn = NoCall
  /\ fnOut = NoCall
  /\ other = NoRun
  /\ scraper \in {StartScrape(m) : m \in 1..MaxPages}

ScrapeFrame ==
  UNCHANGED <<store, apiKey, pc, batch, metadata, mergedCompanies,
              newCompanies, companiesToUpdate, result, clock, observed, rerun,
              storeAtStart, writeFailed, lastMerge, fnIn, fnOut, other>>

\* The catch block of scrape is entered: it calls stagehand.close()
enterCatch(s, step) ==
  [s EXCEPT !.pc = "catch", !.closeCalls = @ + 1, !.failed = @ \cup {step},
            !.error = step]

\* The batch that starts at i: every fetch of it is started
startBatch(s) ==
  The({ [s EXCEPT !.pc = "fetching", !.batch = b,
                  !.inFlight = {s.i + k : k \in 1..Len(b)},
                  !.results = [k \in 1..Len(b) |-> Pending]] :
        b \in {batchOf(s.validCompanies, s.i)} })

\* scrape after extractCompaniesFromPage has returned `companies`: no
\* company ends the pagination; otherwise enhanceCompaniesWithDetails runs
\* up to its first await.
afterExtract(s, companies) ==
  IF Len(companies) = 0
  THEN [s EXCEPT !.pc = "close", !.closeCalls = @ + 1]
  ELSE The({ IF Len(s1.validCompanies) > 0 THEN startBatch(s1)
             ELSE [s1 EXCEPT !.pc = "enhanced",
                             !.enhancedCompanies = s1.invalidCompanies] :
             s1 \in {[s EXCEPT !.pageCompanies = companies,
                               !.validCompanies = validCompanies(companies),
                               !.invalidCompanies = invalidCompanies(companies),
                               !.i = 0, !.batch = <<>>, !.results = <<>>,
                               !.enhancedCompanies = <<>>,
                               !.enhanced = FALSE]} })

\* The close of the catch block is not in a try of its own.
catchBlock_closeUnguarded(s, closeOk) ==
  IF closeOk
  THEN [s EXCEPT !.pc = "returned",
                 !.result = [NoScrapeResult EXCEPT !.error = s.error]]
  ELSE [s EXCEPT !.pc = "rejected", !.failed = @ \cup {"close"}]

\* The catch block of scrape once its close has settled
catchBlock(s, closeOk) ==
  [s EXCEPT !.pc = "returned",
            !.failed = IF closeOk THEN @ ELSE @ \cup {"close"},
            !.result = [NoScrapeResult EXCEPT !.error = s.error]]

\* await this.stagehand.init()
InitSettles(ok) ==
  /\ scraper.pc = "init"
  /\ scraper' = IF ok THEN [scraper EXCEPT !.pc = "goto"]
                ELSE enterCatch(scraper, "init")
  /\ ScrapeFrame

\* await page.goto(pageUrl); await page.waitForTimeout(3000)
GotoSettles(ok) ==
  /\ scraper.pc = "goto"
  /\ scraper' = IF ok THEN [scraper EXCEPT !.pc = "extract"]
                ELSE enterCatch(scraper, "goto")
  /\ ScrapeFrame

\* await this.extractCompaniesFromPage(page): n companies, or [] when the
\* extraction failed
ExtractSettles(n, ok) ==
  /\ scraper.pc = "extract"
  /\ n <= MaxCompanies - Len(scraper.allCompanies)
  /\ ok \/ n = 0
  /\ scraper' =
       afterExtract([scraper EXCEPT !.failed = IF ok THEN @
                                               ELSE @ \cup {"extract"}],
                    IF ok THEN listing(Len(scraper.allCompanies), n) ELSE <<>>)
  /\ ScrapeFrame

\* The fetch of validCompanies[k] settles.
FetchSettles(k, outcome) ==
  /\ scraper.pc = "fetching"
  /\ k \in scraper.inFlight
  /\ scraper' = [scraper EXCEPT
                   !.inFlight = @ \ {k},
                   !.results[k - scraper.i] =
                     processCompanyInParallel(scraper.batch[k - scraper.i],
                                              outcome)]
  /\ ScrapeFrame

\* Promise.allSettled(batchPromises) resolves: the results are pushed, and
\* after the last batch the companies without a valid URL
BatchSettled ==
  /\ scraper.pc = "fetching"
  /\ scraper.inFlight = {}
  /\ \E pushed \in {scraper.enhancedCompanies
                     \o batchResultsOf(scraper.batch, scraper.results)} :
       scraper' =
         IF scraper.i + BATCH_SIZE < Len(scraper.validCompanies)
         THEN [scraper EXCEPT !.pc = "delay", !.enhancedCompanies = pushed]
         ELSE [scraper EXCEPT !.pc = "enhanced",
                              !.enhancedCompanies =
                                pushed \o scraper.invalidCompanies]
  /\ ScrapeFrame

\* The delay between two batches has elapsed: the next batch starts.
DelayElapsed ==
  /\ scraper.pc = "delay"
  /\ scraper' = startBatch([scraper EXCEPT !.i = @ + BATCH_SIZE])
  /\ ScrapeFrame

\* enhanceCompaniesWithDetails has returned: scrape pushes the companies
\* and goes to the next page, or calls stagehand.close()
EnhanceDone ==
  /\ scraper.pc = "enhanced"
  /\ scraper' =
       IF scraper.currentPage < scraper.maxPages
       THEN [scraper EXCEPT
               !.allCompanies = @ \o scraper.enhancedCompanies,
               !.enhanced = TRUE, !.currentPage = @ + 1, !.pc = "goto"]
       ELSE [scraper EXCEPT
               !.allCompanies = @ \o scraper.enhancedCompanies,
               !.enhanced = TRUE, !.pc = "close", !.closeCalls = @ + 1]
  /\ ScrapeFrame

\* await this.stagehand.close() of the try block
CloseSettles(ok) ==
  /\ scraper.pc = "close"
  /\ scraper' =
       IF ok
       THEN [scraper EXCEPT
               !.pc = "returned",
               !.result = [success |-> TRUE, data |-> scraper.allCompanies,
                           totalCompanies |-> Len(scraper.allCompanies),
                           error |-> ""]]
       ELSE enterCatch(scraper, "close")
  /\ ScrapeFrame

\* await this.stagehand.close() of the catch block
CatchCloseSettles(ok) ==
  /\ scraper.pc = "catch"
  /\ scraper' = catchBlock(scraper, ok)
  /\ ScrapeFrame

ScrapeNext ==
  \/ \E ok \in BOOLEAN : InitSettles(ok)
  \/ \E ok \in BOOLEAN : GotoSettles(ok)
  \/ \E n \in 0..MaxCompanies, ok \in BOOLEAN : ExtractSettles(n, ok)
  \/ \E k \in 1..MaxCompanies, outcome \in FetchOutcomes : FetchSettles(k, outcome)
  \/ BatchSettled
  \/ DelayElapsed
  \/ EnhanceDone
  \/ \E ok \in BOOLEAN : CloseSettles(ok)
  \/ \E ok \in BOOLEAN : CatchCloseSettles(ok)

ScrapeSpec == ScrapeInit /\ [][ScrapeNext]_vars

\* Every call that scrape awaits settles: the browser calls resolve or
\* reject within their time limits and the timers fire.
ScrapeFairSpec == ScrapeSpec /\ WF_vars(ScrapeNext)

\* ======================================================================
\* Properties
\* ======================================================================
ArrayFields == {"phones", "principal_contacts", "urls", "addresses"}
ValueFields == {"phone", "principal_contact", "url", "address"}
ArrayOf(f) ==
  CASE f = "phone" -> "phones"
    [] f = "principal_contact" -> "principal_contacts"
    [] f = "url" -> "urls"
    [] f = "address" -> "addresses"

Rows == 1..Len(store)
IsSentinel(v) == v = <<>> \/ v = NA \/ trim(v) = <<>>
HasRepeat(arr) == \E i, j \in 1..Len(arr) : i # j /\ arr[i] = arr[j]

\* C1 (identity uniqueness): the store never holds two rows whose names are
\* equal under lowercase(trim(name)).
C1_IdentityUniqueness ==
  \A i, j \in Rows :
    i # j => normalizedName(store[i].name) # normalizedName(store[j].name)

\* C2 (accreditation monotonicity): a row whose accreditation is
\* 'Accredited' keeps it in every step.
C2_AccreditationMonotone ==
  [][\A i \in Rows : store[i].accreditation = "Accredited"
       => store'[i].accreditation = "Accredited"]_vars

\* C3 (idempotence): a run that repeats the batch of the run before it,
\* with no oracle configured and no store error in either run, leaves the
\* store as it was and reports no insert and no update.
C3_Idempotence ==
  (pc = "done" /\ rerun = "clean" /\ ~writeFailed /\ ~apiKey)
    => /\ store = storeAtStart
       /\ result.savedCompanies = <<>>
       /\ result.duplicatesUpdated = 0

\* C4 (no data loss): after a run with no oracle configured and no store
\* error, every non-sentinel value of every observation of the batch is an
\* element of the corresponding array of a row of that company.
C4_NoDataLoss ==
  (pc = "done" /\ ~writeFailed /\ ~apiKey)
    => \A k \in 1..Len(batch) : \A f \in ValueFields :
         ~IsSentinel(batch[k][f])
           => \E i \in Rows :
                /\ normalizedName(store[i].name) = normalizedName(batch[k].name)
                /\ Contains(Items(store[i][ArrayOf(f)]), trim(batch[k][f]))

\* C5 (no spurious duplicates): with no oracle configured, no array of a
\* stored row holds the same string twice.
C5_NoSpuriousDuplicates ==
  ~apiKey => \A i \in Rows : \A f \in ArrayFields :
               ~HasRepeat(Items(store[i][f]))

\* No array of the written row is longer than the existing one and the
\* accreditation is the existing one.
NothingGained(existing, updateData) ==
  /\ \A f \in ArrayFields :
       Len(Items(updateData[f])) <= Len(Items(existing[f]))
  /\ updateData.accreditation = existing.accreditation

\* C6 (NoChange exactly when nothing is new): a merge that does not reject
\* returns NoChange if and only if no array field gained an element and the
\* accreditation is unchanged, for every existing row.
C6_NoChangeExactly ==
  (fnOut.fn = "updateExistingCompanyWithArrays"
   /\ fnOut.out.outcome \in {"NoChange", "Updated"})
    => ((fnOut.out.outcome = "NoChange")
          <=> NothingGained(fnIn.existing, fnOut.out.updateData))

\* C7 (NoChange writes nothing): an iteration of the update loop whose merge
\* returns NoChange leaves every row of the store as it was.
IsUpdateIteration ==
  /\ pc = "update"
  /\ Len(companiesToUpdate') = Len(companiesToUpdate) - 1

C7_NoChangeNoWrite ==
  [][(IsUpdateIteration /\ lastMerge'.outcome = "NoChange")
       => store' = store]_vars

C7_Witness ==
  /\ lastMerge.outcome = "NoChange"
  /\ store # <<>>
  /\ \E i \in Rows : store[i].id = lastMerge.existing.id
                     /\ store[i].page_count # metadata.pageCount

\* The candidates that duplicate no existing value and no earlier candidate.
firstSeenNonDuplicates(existingValues, candidates) ==
  SelectSeq(uniqueValues(candidates), LAMBDA v : ~Contains(existingValues, v))

\* C8 (Similarity Judge contract): deduplicateWithAI returns exactly the
\* candidates that duplicate no existing value and no earlier candidate.
C8_JudgeContract ==
  fnOut.fn = "deduplicateWithAI"
    => /\ fnOut.out.iterable
       /\ fnOut.out.items =
            firstSeenNonDuplicates(Items(fnIn.existing), fnIn.candidates)

\* C9 (oracle fallback): whenever the oracle fails or answers something that
\* is not an array, mergeArrays does not reject and returns what it returns
\* with the deterministic rule.
OracleFailures == {"error", "object"}

C9_OracleFallback ==
  (fnOut.fn = "mergeArrays" /\ apiKey /\ fnOut.resp \in OracleFailures)
    => /\ ~fnOut.out.threw
       /\ fnOut.out.val =
            mergeArrays(fnIn.existing, fnIn.candidates, "error").val

\* C10 (termination): every run of saveCompanies that has started
\* eventually resolves or rejects.
C10_RunTerminates ==
  (pc \in {"merge", "lookup", "insert", "update"})
    ~> (pc \in {"done", "failed"})

\* The run in flight was rejected by the bulk insert of step 4.
InsertFailed == pc = "failed" /\ writeFailed /\ newCompanies # <<>>

\* C11 (a write failure spares the siblings): when the insert of the new
\* companies fails, every existing company of the batch is still processed:
\* no pair is left in the update list.
C11_WriteFailureSparesSiblings ==
  InsertFailed => companiesToUpdate = <<>>

\* C12 (a failed lookup aborts the batch): a lookup step in which the store
\* returns an error rejects the run with the store as it was when the run
\* started, and a rejected run writes nothing afterwards.
C12_LookupFailureAborts ==
  [][/\ (pc = "lookup" /\ writeFailed')
        => (pc' = "failed" /\ store' = store /\ store = storeAtStart)
     /\ (pc = "failed") => (store' = store)]_vars

C12_Witness ==
  /\ pc = "failed"
  /\ writeFailed
  /\ newCompanies = <<>>
  /\ store # <<>>
  /\ \E k \in 1..Len(mergedCompanies) : \A i \in Rows :
       normalizedName(store[i].name) # normalizedName(mergedCompanies[k].name)

\* C13 (no anonymous record): no stored row has a name that is empty after
\* trimming.
C13_NoAnonymousRecord ==
  \A i \in Rows : normalizedName(store[i].name) # <<>>

\* C14 (a failed write is not a skipped duplicate): an iteration of the
\* update loop in which the store write fails does not count the record as
\* skipped.
C14_FailureNotSkipped ==
  [][(IsUpdateIteration /\ ~writeFailed /\ writeFailed')
       => result'.duplicatesSkipped = result.duplicatesSkipped]_vars

\* C15 (tri-state outcome): when a run returns, the saved, updated and
\* skipped counts add up to the number of distinct normalized names of the
\* batch.
distinctNames(companies) ==
  {normalizedName(companies[k].name) : k \in 1..Len(companies)}

C15_TriStateOutcome ==
  (pc = "done")
    => Len(result.savedCompanies) + result.duplicatesUpdated
         + result.duplicatesSkipped = Cardinality(distinctNames(batch))

\* The positions of the observations that are the first of their normalized
\* name, in order.
firstIndexes(companies) ==
  SelectSeq([k \in 1..Len(companies) |-> k],
            LAMBDA k : \A j \in 1..(k - 1) :
              normalizedName(companies[j].name) # normalizedName(companies[k].name))

\* The observations of the batch that have the normalized name of `company`.
groupOf(companies, company) ==
  SelectSeq(companies,
            LAMBDA o : normalizedName(o.name) = normalizedName(company.name))

MergedBatch ==
  fnOut.fn = "mergeCompaniesByName" /\ ~fnOut.out.threw

\* C17 (one candidate per name, first-seen order and spelling): a batch
\* merge that does not reject returns one candidate for every first
\* observation of a normalized name, in that order, with that observation's
\* name.
C17_OnePerNameInOrder ==
  MergedBatch
    => LET first == firstIndexes(fnIn.companies)
       IN /\ Len(fnOut.out.val) = Len(first)
          /\ \A i \in 1..Len(first) :
               fnOut.out.val[i].name = fnIn.companies[first[i]].name

C17_Witness ==
  /\ MergedBatch
  /\ Len(fnIn.companies) = 3
  /\ Len(fnOut.out.val) = 2
  /\ fnOut.out.val[1].name = <<" ", "A">>
  /\ fnIn.companies[3].name = <<"a">>

\* The accreditation of a group: 'Accredited' if any observation reports it,
\* else the first value that is not 'Unknown', else 'Unknown'.
groupAccreditation(group) ==
  IF \E k \in 1..Len(group) : group[k].accreditation = "Accredited"
  THEN "Accredited"
  ELSE IF \E k \in 1..Len(group) : group[k].accreditation # "Unknown"
  THEN group[CHOOSE k \in 1..Len(group) :
               /\ group[k].accreditation # "Unknown"
               /\ \A j \in 1..(k - 1) : group[j].accreditation = "Unknown"
            ].accreditation
  ELSE "Unknown"

\* C18 (intra-batch accreditation): every candidate of a batch merge that
\* does not reject carries the accreditation of its group.
C18_GroupAccreditation ==
  MergedBatch
    => \A i \in 1..Len(fnOut.out.val) :
         fnOut.out.val[i].accreditation =
           groupAccreditation(groupOf(fnIn.companies, fnOut.out.val[i]))

C18_Witness ==
  /\ MergedBatch
  /\ Len(fnIn.companies) = 3
  /\ Len(fnOut.out.val) = 1
  /\ \/ /\ fnIn.companies[1].accreditation = "Non-Accredited"
        /\ fnIn.companies[2].accreditation = "Accredited"
        /\ fnIn.companies[3].accreditation = "A+"
        /\ fnOut.out.val[1].accreditation = "Accredited"
     \/ /\ fnIn.companies[1].accreditation = "Unknown"
        /\ fnIn.companies[2].accreditation = "A+"
        /\ fnIn.companies[3].accreditation = "Non-Accredited"
        /\ fnOut.out.val[1].accreditation = "A+"

\* The split of step 3 as identity resolution requires it.
IdentityResolved ==
  /\ \A k \in 1..Len(mergedCompanies) :
       LET c == mergedCompanies[k]
           inserts == CountOf(newCompanies, c)
           updates == Cardinality({i \in 1..Len(companiesToUpdate) :
                                    companiesToUpdate[i].newData = c})
           stored == \E i \in Rows :
                       normalizedName(store[i].name) = normalizedName(c.name)
       IN /\ inserts + updates = 1
          /\ (updates = 1) <=> stored
  /\ \A i \in 1..Len(companiesToUpdate) :
       /\ Contains(store, companiesToUpdate[i].existing)
       /\ normalizedName(companiesToUpdate[i].existing.name)
            = normalizedName(companiesToUpdate[i].newData.name)
  /\ \A i, j \in 1..Len(companiesToUpdate) :
       i # j => companiesToUpdate[i].existing.id # companiesToUpdate[j].existing.id

\* C19 (identity resolution partitions the batch): after the lookup every
\* merged candidate is in exactly one of the insert list and the update
\* list, in the update list iff a stored row has its normalized name, paired
\* with such a row, and no stored row is paired twice.
C19_IdentityPartition ==
  [][(pc = "lookup" /\ pc' \in {"insert", "update", "done"})
       => IdentityResolved']_vars

IsPrefix(a, b) == Len(a) <= Len(b) /\ SubSeq(b, 1, Len(a)) = a

\* C20 (append-only arrays): in every step, every array of every stored row
\* keeps its values, in their order, as a prefix of the array after the step.
C20_AppendOnly ==
  [][\A i \in Rows : \A f \in ArrayFields :
       IsPrefix(Items(store[i][f]), Items(store'[i][f]))]_vars

C20_Witness ==
  /\ lastMerge.outcome = "Updated"
  /\ Len(Items(lastMerge.existing.phones)) > 0
  /\ \E i \in Rows :
       /\ store[i].id = lastMerge.existing.id
       /\ Len(Items(store[i].phones)) > Len(Items(lastMerge.existing.phones))
       /\ IsPrefix(Items(lastMerge.existing.phones), Items(store[i].phones))

\* The normalized names a call has looked up and not yet written.
pendingNames(at, toInsert, toUpdate) ==
  IF at = "insert"
  THEN {normalizedName(toInsert[i].name) : i \in 1..Len(toInsert)}
       \cup {normalizedName(toUpdate[i].newData.name) : i \in 1..Len(toUpdate)}
  ELSE IF at = "update"
  THEN {normalizedName(toUpdate[i].newData.name) : i \in 1..Len(toUpdate)}
  ELSE {}

\* C16 (merges of one name are serialized): no two calls are at the same
\* time between the lookup and the write of the same normalized name.
C16_Serialized ==
  pendingNames(pc, newCompanies, companiesToUpdate)
    \cap pendingNames(other.pc, other.newCompanies, other.companiesToUpdate)
  = {}


\* The stored row with the given id
rowOf(id) == store[The({r \in Rows : store[r].id = id})]

\* C30: no stored record has the literal 'Unknown' as its accreditation: a
\* candidate observed as 'Unknown' is inserted with null, and an update
\* whose incoming accreditation is 'Unknown' leaves the stored value as it
\* was.
C30_NeverUnknown ==
  /\ \A r \in Rows : store[r].accreditation # "Unknown"
  /\ (lastMerge.outcome = "Updated" /\ lastMerge.newData.accreditation = "Unknown")
       => rowOf(lastMerge.existing.id).accreditation
            = lastMerge.existing.accreditation

\* A row inserted from an 'Unknown' observation holds null, and an update
\* with an incoming 'Unknown' has been written over it.
C30_Witness ==
  /\ lastMerge.outcome = "Updated"
  /\ lastMerge.newData.accreditation = "Unknown"
  /\ lastMerge.existing.accreditation = "null"
  /\ rowOf(lastMerge.existing.id).accreditation = "null"
  /\ rowOf(lastMerge.existing.id).phones # lastMerge.existing.phones


\* C23 (merge accreditation rule): a merge that returns never changes the
\* accreditation when the incoming one is 'Unknown'; when the incoming one
\* is known and differs from a stored one that is not 'Accredited', the
\* merge returns Updated and the row holds the incoming accreditation.
C23_AccreditationRule ==
  (fnOut.fn = "updateExistingCompanyWithArrays"
   /\ fnOut.out.outcome \in {"NoChange", "Updated"})
    => /\ fnIn.newData.accreditation = "Unknown"
            => /\ fnOut.out.data.accreditation = fnIn.existing.accreditation
               /\ fnOut.out.updateData.accreditation
                    = fnIn.existing.accreditation
       /\ (/\ fnIn.newData.accreditation # "Unknown"
           /\ fnIn.newData.accreditation # fnIn.existing.accreditation
           /\ fnIn.existing.accreditation # "Accredited")
            => /\ fnOut.out.outcome = "Updated"
               /\ fnOut.out.data.accreditation = fnIn.newData.accreditation

\* 'Non-Accredited' then 'Accredited', every array as it was: Updated,
\* 'Accredited'.
C23_Witness ==
  /\ fnOut.fn = "updateExistingCompanyWithArrays"
  /\ fnIn.existing.accreditation = "Non-Accredited"
  /\ fnIn.newData.accreditation = "Accredited"
  /\ fnOut.out.outcome = "Updated"
  /\ fnOut.out.data.accreditation = "Accredited"
  /\ \A f \in ArrayFields : fnOut.out.data[f] = fnIn.existing[f]


\* The time columns of a Company row
TimeColumns == {"scraped_at"}

\* C24 (an update carries the run): after a merge that returned Updated the
\* stored record holds the source_url and page_count of the run's metadata
\* and a time written by the run.
C24_UpdateCarriesRun ==
  lastMerge.outcome = "Updated"
    => /\ rowOf(lastMerge.existing.id).source_url = metadata.sourceUrl
       /\ rowOf(lastMerge.existing.id).page_count = metadata.pageCount
       /\ \E c \in TimeColumns : rowOf(lastMerge.existing.id)[c] = clock


\* C21 (no sentinel stored): no array of a stored record holds the empty
\* string, a string of white space only or 'N/A'.
C21_NoSentinelStored ==
  \A r \in Rows : \A f \in ArrayFields :
    \A k \in 1..Len(Items(store[r][f])) : ~IsSentinel(Items(store[r][f])[k])


\* The digits of a phone without the country digit of an 11-digit number
phoneKey(phone) ==
  IF Len(digitsOf(phone)) = 11 /\ digitsOf(phone)[1] = "1"
  THEN Tail(digitsOf(phone))
  ELSE digitsOf(phone)

IsNationalNumber(phone) ==
  \/ Len(digitsOf(phone)) = 10
  \/ Len(digitsOf(phone)) = 11 /\ digitsOf(phone)[1] = "1"

\* C22 (phone equivalence without the oracle): when no oracle is configured
\* or the oracle failed, an incoming phone whose digits, without the
\* country digit, are those of a stored phone is not appended, and a merge
\* that changes nothing else returns NoChange.
C22_PhoneEquivalence ==
  (/\ fnOut.fn = "updateExistingCompanyWithArrays"
   /\ (~apiKey \/ fnOut.resp = "error")
   /\ fnOut.out.outcome \in {"NoChange", "Updated"}
   /\ fnIn.newData.phone # <<>>
   /\ \A i \in 1..Len(parseMultiValue(fnIn.newData.phone)) :
        \E j \in 1..Len(Items(fnIn.existing.phones)) :
          phoneKey(parseMultiValue(fnIn.newData.phone)[i])
            = phoneKey(Items(fnIn.existing.phones)[j])
   /\ \A f \in ArrayFields \ {"phones"} :
        fnOut.out.updateData[f] = fnIn.existing[f]
   /\ fnOut.out.updateData.accreditation = fnIn.existing.accreditation)
    => /\ fnOut.out.updateData.phones = fnIn.existing.phones
       /\ fnOut.out.outcome = "NoChange"

\* C25 (phone formatting): formatPhone returns 'N/A' for '' and 'N/A',
\* "+1" and the ten digits for an input of ten digits, "+" and the eleven
\* digits for one of eleven digits that starts with 1, and the input
\* otherwise; the result for a national number is "+1" and ten digits; and
\* formatting the result again returns it.
C25_FormatPhone ==
  fnOut.fn = "formatPhone"
    => /\ (fnIn.phone = <<>> \/ fnIn.phone = NA) => fnOut.out = NA
       /\ (fnIn.phone # NA /\ Len(digitsOf(fnIn.phone)) = 10)
            => fnOut.out = <<"+", "1">> \o digitsOf(fnIn.phone)
       /\ (Len(digitsOf(fnIn.phone)) = 11 /\ digitsOf(fnIn.phone)[1] = "1")
            => fnOut.out = <<"+">> \o digitsOf(fnIn.phone)
       /\ (fnIn.phone # <<>> /\ ~IsNationalNumber(fnIn.phone))
            => fnOut.out = fnIn.phone
       /\ IsNationalNumber(fnIn.phone)
            => /\ Len(fnOut.out) = 12
               /\ SubSeq(fnOut.out, 1, 2) = <<"+", "1">>
               /\ \A i \in 3..12 : fnOut.out[i] \in Digits
       /\ fnOut.twice = fnOut.out

\* A punctuated number of eleven digits with the country digit has been
\* formatted.
C25_Witness ==
  /\ fnOut.fn = "formatPhone"
  /\ Len(digitsOf(fnIn.phone)) = 11
  /\ Len(fnIn.phone) > 12
  /\ fnOut.out = <<"+">> \o digitsOf(fnIn.phone)
  /\ fnOut.out # fnIn.phone
  /\ fnOut.twice = fnOut.out


\* C26 (a failed save does not fail the request): after a successful scrape
\* of at least one company with saving requested, if saveCompanies or
\* getCompaniesByNames throws, the response is a success response with the
\* companies as scraped; if saveCompanies threw, savedToDatabase is false
\* and the three counts are 0.
C26_SaveFailureTolerated ==
  (/\ fnOut.fn = "POST"
   /\ fnIn.apiValid
   /\ fnIn.scraped.success
   /\ (fnOut.save.threw \/ fnOut.lookup.threw))
    => /\ fnOut.out.status = 200
       /\ fnIn.body.format = "json"
            => /\ fnOut.out.success
               /\ fnOut.out.data = fnIn.scraped.data
               /\ fnOut.save.threw
                    => /\ ~fnOut.out.savedToDatabase
                       /\ fnOut.out.savedCount = 0
                       /\ fnOut.out.duplicatesSkipped = 0
                       /\ fnOut.out.duplicatesUpdated = 0
       /\ fnIn.body.format = "csv"
            => fnOut.out.csv = jsonToCsv(fnIn.scraped.data)

\* saveCompanies threw on a scrape of two companies that was to be saved.
C26_Witness ==
  /\ fnOut.fn = "POST"
  /\ fnIn.apiValid
  /\ fnIn.body.saveToDatabase
  /\ fnIn.body.format = "json"
  /\ Len(fnIn.scraped.data) = 2
  /\ fnOut.save.threw
  /\ fnOut.out.success
  /\ fnOut.out.data = fnIn.scraped.data
  /\ ~fnOut.out.savedToDatabase


\* C27 (bounded fan-out): at most BATCH_SIZE profile fetches are in flight,
\* and a fetch starts only when no fetch of an earlier batch is in flight.
C27_BoundedFanOut ==
  /\ [](scraper.pc # "idle" => Cardinality(scraper.inFlight) <= BATCH_SIZE)
  /\ [][(scraper.pc # "idle" /\ (scraper'.inFlight \ scraper.inFlight) # {})
          => scraper.inFlight = {}]_vars

\* The second batch of a page is in flight after a first batch of
\* BATCH_SIZE fetches.
C27_Witness ==
  /\ scraper.pc = "fetching"
  /\ scraper.i = BATCH_SIZE
  /\ scraper.inFlight # {}
  /\ Len(scraper.enhancedCompanies) = BATCH_SIZE

\* The name, phone, url and accreditation of the companies of a list
coreOf(companies) ==
  [k \in 1..Len(companies) |->
     [name |-> companies[k].name, phone |-> companies[k].phone,
      url |-> companies[k].url, accreditation |-> companies[k].accreditation]]

SameCompanies(a, b) ==
  /\ Len(a) = Len(b)
  /\ \A k \in 1..Len(a) : CountOf(coreOf(b), coreOf(a)[k]) = CountOf(coreOf(a), coreOf(a)[k])

\* C28 (no company lost or duplicated): the list enhanceCompaniesWithDetails
\* returns holds each company of its input as often as the input does,
\* with name, phone, url and accreditation unchanged.
C28_NoCompanyLost ==
  (scraper.pc # "idle" /\ scraper.enhanced)
    => SameCompanies(scraper.pageCompanies, scraper.enhancedCompanies)

\* Two batches with an enhanced company, a rejected fetch, a company
\* without a valid URL and a company listed twice.
C28_Witness ==
  /\ scraper.pc # "idle"
  /\ scraper.enhanced
  /\ Len(scraper.validCompanies) > BATCH_SIZE
  /\ scraper.invalidCompanies # <<>>
  /\ \E k \in 1..Len(scraper.results) : scraper.results[k].status = "rejected"
  /\ \E k \in 1..Len(scraper.enhancedCompanies) :
       scraper.enhancedCompanies[k].principal_contact # NA
  /\ \E j, k \in 1..Len(scraper.pageCompanies) :
       j # k /\ scraper.pageCompanies[j] = scraper.pageCompanies[k]


ScrapeReturned == scraper.pc = "returned"

\* C29 as claimed: scrape never rejects; if any step failed (init,
\* navigation, extraction, close) the result has success=false and an error
\* message, otherwise success=true with totalCompanies = data.length; and
\* close has been called before the result is returned.
C29_AnyFailureReported ==
  /\ scraper.pc # "rejected"
  /\ ScrapeReturned
       => /\ scraper.closeCalls >= 1
          /\ scraper.failed # {}
               => ~scraper.result.success /\ scraper.result.error # ""
          /\ scraper.failed = {}
               => /\ scraper.result.success
                  /\ scraper.result.totalCompanies = Len(scraper.result.data)

\* The steps whose failure reaches the catch block of scrape
ThrowingSteps == {"init", "goto", "close"}

\* C29 as amended: scrape resolves and never rejects; if init, navigation
\* or close failed the result has success=false and an error message;
\* otherwise, also when an extraction failed, it has success=true, the
\* companies of the pages enhanced so far and totalCompanies = data.length;
\* and close has been called before the result is returned.
C29_ScrapeResolves ==
  /\ [](scraper.pc # "rejected")
  /\ [](ScrapeReturned
          => /\ scraper.closeCalls >= 1
             /\ (scraper.failed \cap ThrowingSteps) # {}
                  => ~scraper.result.success /\ scraper.result.error # ""
             /\ (scraper.failed \cap ThrowingSteps) = {}
                  => /\ scraper.result.success
                     /\ scraper.result.data = scraper.allCompanies
                     /\ scraper.result.totalCompanies
                          = Len(scraper.result.data))
  /\ <>ScrapeReturned

\* The close of the try block failed after a page was enhanced, and so did
\* the close of the catch block.
C29_Witness ==
  /\ ScrapeReturned
  /\ ~scraper.result.success
  /\ scraper.result.error = "close"
  /\ scraper.closeCalls = 2
  /\ scraper.allCompanies # <<>>

====
